---- MODULE Spec2Model ----
(***************************************************************************)
(* Model of scripts/analyze-trace.py: the Speedscope trace reduction       *)
(* (parse_speedscope), the method classifier (categorize_method) and the   *)
(* baseline verdict of generate_markdown; and of the anchors of            *)
(* scripts/verify-local-links.py (github_slugify, extract_headers).        *)
(*                                                                         *)
(* Representation.  A Python str is a sequence of one-character strings.   *)
(* A Counter is a sequence of <<key, value>> pairs in insertion order      *)
(* (Python dicts iterate in insertion order, and most_common is a stable   *)
(* sort over that order).  Times are integers; a percentage rounded to two *)
(* decimals is the integer number of hundredths of a percent.  The         *)
(* 'timestamp' field of the metrics record is the wall time of the run and *)
(* is not modelled.                                                        *)
(***************************************************************************)
EXTENDS Integers, Sequences, FiniteSets, TLC

VARIABLES
  pc,               \* position of parse_speedscope: start, profiles, samples, events,
                    \* done (returned), or the TypeError it raised
  frames,           \* data['shared']['frames']
  nprofiles,        \* len(data['profiles'])
  recordings,       \* the headers of the profiles read so far: type; startValue,
                    \* endValue and the inclusive time of the outermost pairs read
                    \* so far (evented); the weight read so far (sampled)
  weights_len,      \* len(weights) of the sampled profile being decoded, line 113
  sample_i,         \* index i of the enumerate(samples) loop
  nread,            \* samples and events read so far over the whole trace
  total_samples,    \* line 103
  frame_samples,    \* line 104
  profile_results,  \* line 105
  event,            \* the event being decoded: event_type, frame_idx, timestamp, lines 135-137
  stack,            \* line 132
  frame_inclusive,  \* line 128
  frame_exclusive,  \* line 129
  frame_count,      \* line 130
  total_inclusive,  \* lines 178, 197
  total_exclusive,  \* lines 179, 196
  total_count,      \* lines 180, 198
  result,           \* the value parse_speedscope returns
  method_name,      \* argument of categorize_method
  category,         \* value categorize_method returns
  metrics,          \* argument of generate_markdown
  baseline,         \* argument of generate_markdown
  verdict_text,     \* local of generate_markdown, line 282
  report,           \* outcome of generate_markdown
  header_texts,     \* the header texts extract_headers has read so far
  slug_counts,      \* verify-local-links.py line 84
  headers,          \* verify-local-links.py line 83
  slug              \* the slug github_slugify returned last

parse_vars == <<pc, frames, nprofiles, recordings, weights_len, sample_i, nread,
                total_samples, frame_samples, profile_results, event,
                stack, frame_inclusive, frame_exclusive, frame_count,
                total_inclusive, total_exclusive, total_count, result>>
cat_vars == <<method_name, category>>
md_vars == <<metrics, baseline, verdict_text, report>>
slug_vars == <<header_texts, slug_counts, headers, slug>>
vars == <<parse_vars, cat_vars, md_vars, slug_vars>>

-----------------------------------------------------------------------------
(* Bounds of the model. *)

\* most recordings in one trace
MaxProfiles == 2
\* most samples plus events read over one trace
MaxEvents == 4
\* largest timestamp: startValue, endValue and the 'at' of an event
MaxTime == 1
\* deepest stack of open frames
MaxDepth == 3
\* largest sample weight
MaxWeight == 2
\* largest frame index an event or a sample names
MaxFrame == 1
\* most pieces concatenated into one method name
MaxParts == 3
\* largest wall-clock value handed to generate_markdown (ms)
MaxWall == 24
\* most frames with an entry in the ledger handed to the hotspot selection
MaxLedger == 12
\* most headers in one document
MaxHeaders == 4

-----------------------------------------------------------------------------
(* Python strings *)

Uppers == <<"A","B","C","D","E","F","G","H","I","J","K","L","M",
            "N","O","P","Q","R","S","T","U","V","W","X","Y","Z">>
Lowers == <<"a","b","c","d","e","f","g","h","i","j","k","l","m",
            "n","o","p","q","r","s","t","u","v","w","x","y","z">>

\* str.lower() on one character
LowerChar(c) ==
  IF \E i \in 1..Len(Uppers) : Uppers[i] = c
    THEN Lowers[CHOOSE i \in 1..Len(Uppers) : Uppers[i] = c]
    ELSE c

\* str.lower()
Lower(s) == [i \in 1..Len(s) |-> LowerChar(s[i])]

\* s.startswith(p)
StartsWith(s, p) == Len(p) <= Len(s) /\ SubSeq(s, 1, Len(p)) = p

\* the Python test "p in s", scanning s from the left
RECURSIVE In(_, _)
In(p, s) ==
  IF Len(p) > Len(s) THEN FALSE
  ELSE IF StartsWith(s, p) THEN TRUE
  ELSE In(p, Tail(s))

\* index of the first occurrence of character c in s, 0 when there is none
RECURSIVE Find(_, _, _)
Find(s, c, i) ==
  IF i > Len(s) THEN 0
  ELSE IF s[i] = c THEN i
  ELSE Find(s, c, i + 1)

\* s.split(c)
RECURSIVE Split(_, _)
Split(s, c) ==
  LET k == Find(s, c, 1) IN
  IF k = 0 THEN <<s>>
  ELSE <<SubSeq(s, 1, k - 1)>> \o Split(SubSeq(s, k + 1, Len(s)), c)

-----------------------------------------------------------------------------
(* categorize_method *)

noise_patterns ==
  << <<"t","h","r","e","a","d","s">>,
     <<"n","o","n","-","a","c","t","i","v","i","t","i","e","s">>,
     <<"p","r","o","c","e","s","s","6","4">>,
     <<"u","n","m","a","n","a","g","e","d","_","c","o","d","e","_","t","i","m","e">>,
     <<"t","h","r","e","a","d","i","n","g",".","p","o","r","t","a","b","l","e","t","h","r","e","a","d","p","o","o","l">>,
     <<"t","h","r","e","a","d","i","n","g",".","l","o","w","l","e","v","e","l","l","i","f","o","s","e","m","a","p","h","o","r","e">>,
     <<"t","h","r","e","a","d","i","n","g",".","s","e","m","a","p","h","o","r","e","s","l","i","m">>,
     <<"t","h","r","e","a","d","i","n","g",".","m","o","n","i","t","o","r",".","w","a","i","t">>,
     <<"t","h","r","e","a","d","i","n","g",".","m","a","n","u","a","l","r","e","s","e","t","e","v","e","n","t","s","l","i","m">>,
     <<"t","h","r","e","a","d","i","n","g",".","t","h","r","e","a","d",".","s","l","e","e","p">>,
     <<"w","a","i","t","h","a","n","d","l","e">>,
     <<"t","a","s","k","a","w","a","i","t","e","r">> >>

ProductMarker == <<"p","r","o","b","o","t","s","h","a","r","p">>

\* any(pattern in method_lower for pattern in noise_patterns)
AnyNoise(method_lower) ==
  \E k \in 1..Len(noise_patterns) : In(noise_patterns[k], method_lower)

\* variant: the product marker tested before the noise patterns
categorize_method_AppFirst(name) ==
  LET method_lower == Lower(name) IN
  IF In(ProductMarker, method_lower) THEN "app"
  ELSE IF AnyNoise(method_lower) THEN "noise"
  ELSE "framework"

categorize_method(name) ==
  LET method_lower == Lower(name) IN
  IF AnyNoise(method_lower) THEN "noise"
  ELSE IF In(ProductMarker, method_lower) THEN "app"
  ELSE "framework"

-----------------------------------------------------------------------------
(* Python values *)

\* the value dict.get returns for a missing key ('frame' or 'at' of an event)
None == -1

\* collections.Counter: <<key, value>> pairs in insertion order
CounterHas(c, k) == \E i \in 1..Len(c) : c[i][1] = k

\* c[k], which is 0 for a missing key and does not insert it
CounterGet(c, k) ==
  IF CounterHas(c, k) THEN c[CHOOSE i \in 1..Len(c) : c[i][1] = k][2] ELSE 0

\* c[k] += v, which inserts a missing key at the end
CounterAdd(c, k, v) ==
  IF CounterHas(c, k)
    THEN [i \in 1..Len(c) |-> IF c[i][1] = k THEN <<k, c[i][2] + v>> ELSE c[i]]
    ELSE Append(c, <<k, v>>)

\* sum(c.values())
RECURSIVE CounterSum(_)
CounterSum(c) == IF c = <<>> THEN 0 ELSE c[1][2] + CounterSum(Tail(c))

\* for k, v in src.items(): dst[k] += v
RECURSIVE CounterMerge(_, _)
CounterMerge(dst, src) ==
  IF src = <<>> THEN dst
  ELSE CounterMerge(CounterAdd(dst, src[1][1], src[1][2]), Tail(src))

\* max() of a non-empty sequence of numbers
RECURSIVE MaxOf(_)
MaxOf(s) ==
  IF Len(s) = 1 THEN s[1]
  ELSE LET m == MaxOf(Tail(s)) IN IF s[1] >= m THEN s[1] ELSE m

\* round(n / d, 0) for d > 0: nearest integer, a tie going to the even one
RoundDiv(n, d) ==
  LET q == n \div d
      r == n - q * d
  IN  IF 2 * r < d THEN q
      ELSE IF 2 * r > d THEN q + 1
      ELSE IF q % 2 = 0 THEN q ELSE q + 1

-----------------------------------------------------------------------------
(* The input trace *)

Name1 == <<"A","p","p",".","d","l","l","!","M","y","A","p","p",".","P","r","o","b","o","t","S","h","a","r","p",".","R","u","n">>  \* App.dll!MyApp.ProbotSharp.Run
Name2 == <<"S","y","s","t","e","m",".","G","C",".","C","o","l","l","e","c","t">>  \* System.GC.Collect
Name3 == <<"g","c","!","A","l","l","o","c","!","N","e","w">>  \* gc!Alloc!New


\* a frame record of the frame table; a frame with no 'name' key has only 'line'
Named(n) == [name |-> n]
Nameless == [line |-> 0]

\* the frame tables analysed
FrameTables ==
  { <<>>,
    <<Named(Name1), Named(Name2)>>,
    <<Named(Name3)>> }

\* frame indices a sample names, and those event.get('frame') yields
SampleFrames == 0..MaxFrame
EventFrames == SampleFrames \cup {None}

\* timestamps
Times == 0..MaxTime

\* the values event.get('at') yields
EventTimes == Times \cup {None}

\* profile.get('type', 'sampled')
ProfileType(t) == IF t = "missing" THEN "sampled" ELSE t

\* no event read yet in the profile at hand
NoEvent == [type |-> "none", frame |-> None, at |-> None]

\* the result not yet returned
NoResult == [pending |-> TRUE]

\* variant: the empty-trace result still counting the recordings
EmptyResult_CountsThreads ==
  [ error |-> "Empty trace file - no frames or profiles found",
    wall_clock_ms |-> 0,
    total_cpu_time_ms |-> 0,
    top_methods |-> <<>>,
    thread_count |-> nprofiles ]

\* lines 93-99
EmptyResult ==
  [ error |-> "Empty trace file - no frames or profiles found",
    wall_clock_ms |-> 0,
    total_cpu_time_ms |-> 0,
    top_methods |-> <<>>,
    thread_count |-> 0 ]

-----------------------------------------------------------------------------
(* parse_speedscope, lines 89-169: the empty-trace test and the decoders *)

\* the variables of one evented decoding, lines 128-132
decoder_vars == <<event, stack, frame_inclusive, frame_exclusive, frame_count>>
\* the variables of the aggregation, lines 171-265
final_vars == <<total_inclusive, total_exclusive, total_count, result>>
other_vars == <<cat_vars, md_vars, slug_vars>>

\* lines 89-105
Start ==
  /\ pc = "start"
  /\ IF frames = <<>> \/ nprofiles = 0
       THEN /\ result' = EmptyResult
            /\ pc' = "done"
       ELSE /\ result' = result
            /\ pc' = "profiles"
  /\ UNCHANGED <<frames, nprofiles, recordings, weights_len, sample_i, nread, total_samples,
                 frame_samples, profile_results, decoder_vars,
                 total_inclusive, total_exclusive, total_count, other_vars>>

\* lines 107-113: the next profile is a sampled one with wl weights
BeginSampled ==
  /\ pc = "profiles"
  /\ Len(recordings) < nprofiles
  /\ \E t \in {"sampled", "missing"} :
       recordings' = Append(recordings, [type |-> ProfileType(t), weight |-> 0])
  /\ weights_len' \in 0..(MaxEvents - nread)
  /\ sample_i' = 0
  /\ pc' = "samples"
  /\ UNCHANGED <<frames, nprofiles, nread, total_samples, frame_samples,
                 profile_results, decoder_vars, final_vars, other_vars>>

\* line 117: w is weights[i] when the weights array reaches position i
SampleWeight(i, len_weights, w) == IF i < len_weights THEN w ELSE 1

\* lines 116-119: one iteration of the loop over samples
SampleStep ==
  /\ pc = "samples"
  /\ nread < MaxEvents
  /\ \E frame_idx \in SampleFrames, w \in 0..MaxWeight :
       LET weight == SampleWeight(sample_i, weights_len, w) IN
       /\ total_samples' = total_samples + weight
       /\ frame_samples' = CounterAdd(frame_samples, frame_idx, weight)
       /\ recordings' = [recordings EXCEPT ![Len(recordings)].weight = @ + weight]
  /\ sample_i' = sample_i + 1
  /\ nread' = nread + 1
  /\ UNCHANGED <<pc, frames, nprofiles, weights_len, profile_results,
                 decoder_vars, final_vars, other_vars>>

\* the loop over samples ends; its locals are dead from here on and are reset
EndSamples ==
  /\ pc = "samples"
  /\ pc' = "profiles"
  /\ weights_len' = 0
  /\ sample_i' = 0
  /\ UNCHANGED <<frames, nprofiles, recordings, nread, total_samples,
                 frame_samples, profile_results, decoder_vars, final_vars,
                 other_vars>>

\* lines 121-132: the next profile is an evented one; its endValue, read at
\* line 125, is used at line 161 only and drawn there
BeginEvented ==
  /\ pc = "profiles"
  /\ Len(recordings) < nprofiles
  /\ \E start_value \in Times :
       recordings' = Append(recordings,
         [type |-> "evented", startValue |-> start_value, outer |-> 0])
  /\ event' = NoEvent
  /\ stack' = <<>>
  /\ frame_inclusive' = <<>>
  /\ frame_exclusive' = <<>>
  /\ frame_count' = <<>>
  /\ pc' = "events"
  /\ UNCHANGED <<frames, nprofiles, weights_len, sample_i, nread, total_samples,
                 frame_samples, profile_results, final_vars, other_vars>>

\* lines 108-121: a profile of any other type is skipped
SkipProfile ==
  /\ pc = "profiles"
  /\ Len(recordings) < nprofiles
  /\ recordings' = Append(recordings, [type |-> "other"])
  /\ UNCHANGED <<pc, frames, nprofiles, weights_len, sample_i, nread, total_samples,
                 frame_samples, profile_results, decoder_vars, final_vars,
                 other_vars>>

\* lines 139-140
OpenEvent ==
  /\ pc = "events"
  /\ nread < MaxEvents
  /\ Len(stack) < MaxDepth
  /\ \E frame_idx \in EventFrames, timestamp \in EventTimes :
       /\ event' = [type |-> "O", frame |-> frame_idx, at |-> timestamp]
       /\ stack' = Append(stack, <<frame_idx, timestamp, 0>>)
  /\ nread' = nread + 1
  /\ UNCHANGED <<pc, frames, nprofiles, recordings, weights_len, sample_i, total_samples,
                 frame_samples, profile_results, frame_inclusive,
                 frame_exclusive, frame_count, final_vars, other_vars>>

\* variant: the inclusive time propagated to every enclosing entry
PopAndPropagate_ToAll(stk, inclusive) ==
  LET rest == SubSeq(stk, 1, Len(stk) - 1) IN
  [j \in 1..Len(rest) |-> <<rest[j][1], rest[j][2], rest[j][3] + inclusive>>]

\* the stack after line 144 (pop) and lines 156-158 (propagate to the parent)
PopAndPropagate(stk, inclusive) ==
  LET rest == SubSeq(stk, 1, Len(stk) - 1) IN
  IF rest = <<>> THEN rest
  ELSE [rest EXCEPT ![Len(rest)] = <<@[1], @[2], @[3] + inclusive>>]

\* variant: a Close matches its frame anywhere on the stack
CloseMatches_Anywhere(stk, frame_idx) ==
  \E j \in 1..Len(stk) : stk[j][1] = frame_idx

\* variant: a Close pops whatever is on top
CloseMatches_AnyTop(stk, frame_idx) == stk # <<>>

\* line 143
CloseMatches(stk, frame_idx) == stk # <<>> /\ stk[Len(stk)][1] = frame_idx

\* variant: the children time added instead of subtracted
Exclusive_PlusChildren(inclusive, children_time) == inclusive + children_time

\* variant: the children time never subtracted
Exclusive_Whole(inclusive, children_time) == inclusive

\* line 148
Exclusive(inclusive, children_time) == inclusive - children_time

\* lines 142-158; "timestamp - open_time" raises TypeError when either is None
CloseEvent ==
  /\ pc = "events"
  /\ nread < MaxEvents
  /\ nread' = nread + 1
  /\ \E frame_idx \in EventFrames, timestamp \in EventTimes :
       /\ event' = [type |-> "C", frame |-> frame_idx, at |-> timestamp]
       /\ IF CloseMatches(stack, frame_idx)
         THEN LET open_time == stack[Len(stack)][2]
                  children_time == stack[Len(stack)][3]
                  inclusive == timestamp - open_time
                  exclusive == Exclusive(inclusive, children_time)
              IN  IF timestamp = None \/ open_time = None
                    THEN /\ pc' = "TypeError at 147"
                         /\ stack' = SubSeq(stack, 1, Len(stack) - 1)
                         /\ UNCHANGED <<recordings, frame_inclusive, frame_exclusive,
                                        frame_count>>
                    ELSE /\ pc' = pc
                         /\ recordings' =
                              IF Len(stack) = 1
                                THEN [recordings EXCEPT ![Len(recordings)].outer = @ + inclusive]
                                ELSE recordings
                         /\ frame_inclusive' = CounterAdd(frame_inclusive, frame_idx, inclusive)
                         /\ frame_exclusive' = CounterAdd(frame_exclusive, frame_idx, exclusive)
                         /\ frame_count' = CounterAdd(frame_count, frame_idx, 1)
                         /\ stack' = PopAndPropagate(stack, inclusive)
         ELSE UNCHANGED <<pc, recordings, stack, frame_inclusive, frame_exclusive,
                          frame_count>>
  /\ UNCHANGED <<frames, nprofiles, weights_len, sample_i, total_samples,
                 frame_samples, profile_results, final_vars, other_vars>>

\* lines 135-142: an event whose type is neither 'O' nor 'C' is passed over
OtherEvent ==
  /\ pc = "events"
  /\ nread < MaxEvents
  /\ nread' = nread + 1
  /\ \E frame_idx \in EventFrames, timestamp \in EventTimes :
       event' = [type |-> "other", frame |-> frame_idx, at |-> timestamp]
  /\ UNCHANGED <<pc, frames, nprofiles, recordings, weights_len, sample_i, total_samples,
                 frame_samples, profile_results, stack, frame_inclusive,
                 frame_exclusive, frame_count, final_vars, other_vars>>

\* line 161
ProfileDuration(start_value, end_value) == end_value - start_value

\* lines 125 and 160-169: the loop over events ends.  The decoder's locals
\* are dead from here to line 128 of the next evented profile, which resets
\* them; they are reset here already.
EndEvents ==
  /\ pc = "events"
  /\ \E end_value \in Times :
       LET header == recordings[Len(recordings)] IN
       /\ recordings' = [recordings EXCEPT ![Len(recordings)] =
            [type |-> "evented", startValue |-> header.startValue,
             endValue |-> end_value, outer |-> header.outer]]
       /\ profile_results' = Append(profile_results,
            [ duration_ms |-> ProfileDuration(header.startValue, end_value),
              frame_inclusive |-> frame_inclusive,
              frame_exclusive |-> frame_exclusive,
              frame_count |-> frame_count ])
  /\ event' = NoEvent
  /\ stack' = <<>>
  /\ frame_inclusive' = <<>>
  /\ frame_exclusive' = <<>>
  /\ frame_count' = <<>>
  /\ pc' = "profiles"
  /\ UNCHANGED <<frames, nprofiles, weights_len, sample_i, nread, total_samples,
                 frame_samples, final_vars, other_vars>>

-----------------------------------------------------------------------------
(* parse_speedscope, lines 171-265: aggregation and the metrics record *)

GcWord == <<"g","c">>
GarbageWord == <<"g","a","r","b","a","g","e">>
AllocWord == <<"a","l","l","o","c">>
UnknownName == <<"U","n","k","n","o","w","n">>
EmptyName == <<>>
Bang == "!"

\* most_common(10), line 201
TopN == 10

RECURSIVE SumOfDurations(_)
SumOfDurations(results) ==
  IF results = <<>> THEN 0 ELSE results[1].duration_ms + SumOfDurations(Tail(results))

\* variant: the wall clock as the sum of the thread durations
WallClock_Sum(results) == SumOfDurations(results)

\* line 175
WallClock(results) == MaxOf([i \in 1..Len(results) |-> results[i].duration_ms])

\* variant: the ledger of the sampled recordings merged in as well
RECURSIVE Aggregate_WithSamples(_, _)
Aggregate_WithSamples(results, field) ==
  IF results = <<>> THEN (IF field = "frame_count" THEN <<>> ELSE frame_samples)
  ELSE CounterMerge(Aggregate_WithSamples(SubSeq(results, 1, Len(results) - 1), field),
                    results[Len(results)][field])

\* lines 182-188 for one of the three ledgers
RECURSIVE Aggregate(_, _)
Aggregate(results, field) ==
  IF results = <<>> THEN <<>>
  ELSE CounterMerge(Aggregate(SubSeq(results, 1, Len(results) - 1), field),
                    results[Len(results)][field])

\* line 191
TotalCpu(excl) == CounterSum(excl)

\* x goes after every item of the sorted s whose value is not below its own
RECURSIVE InsertDesc(_, _)
InsertDesc(s, x) ==
  IF s = <<>> THEN <<x>>
  ELSE IF s[1][2] >= x[2] THEN <<s[1]>> \o InsertDesc(Tail(s), x)
  ELSE <<x>> \o s

\* sorted(c.items(), key=itemgetter(1), reverse=True): a stable sort
RECURSIVE SortedDesc(_)
SortedDesc(c) ==
  IF c = <<>> THEN <<>>
  ELSE InsertDesc(SortedDesc(SubSeq(c, 1, Len(c) - 1)), c[Len(c)])

\* variant: the n highest entries among those whose frame is in the frame table
MostCommon_InTable(c, n) ==
  LET s == SelectSeq(SortedDesc(c), LAMBDA e : e[1] < Len(frames)) IN
  IF Len(s) <= n THEN s ELSE SubSeq(s, 1, n)

\* Counter.most_common(n)
MostCommon(c, n) ==
  LET s == SortedDesc(c) IN IF Len(s) <= n THEN s ELSE SubSeq(s, 1, n)

\* frame.get('name', default)
FrameName(frame, default) ==
  IF "name" \in DOMAIN frame THEN frame.name ELSE default

\* lines 210-218
MethodPath(frame_name) ==
  IF In(<<Bang>>, frame_name)
    THEN LET parts == Split(frame_name, Bang) IN
         IF Len(parts) > 1 THEN parts[2] ELSE frame_name
    ELSE frame_name

\* variant: percentages taken of the total CPU time
Pct_OverCpu(time, wall_clock_ms) ==
  LET cpu == IF profile_results # <<>>
               THEN TotalCpu(Aggregate(profile_results, "frame_exclusive"))
               ELSE total_samples
  IN  IF cpu > 0 /\ wall_clock_ms > 0 THEN RoundDiv(time * 10000, cpu) ELSE 0

\* lines 224-225 and 252-253, then round(_, 2): hundredths of a percent
Pct(time, wall_clock_ms) ==
  IF wall_clock_ms > 0 THEN RoundDiv(time * 10000, wall_clock_ms) ELSE 0

\* lines 206-235: the hotspot entry of an in-table frame
Hotspot(frame_idx, exclusive_time, tbl, incl, cnt, wall_clock_ms) ==
  LET method_path == MethodPath(FrameName(tbl[frame_idx + 1], UnknownName))
      inclusive_time == CounterGet(incl, frame_idx)
  IN  [ method |-> method_path,
        inclusive_ms |-> inclusive_time,
        exclusive_ms |-> exclusive_time,
        inclusive_pct |-> Pct(inclusive_time, wall_clock_ms),
        exclusive_pct |-> Pct(exclusive_time, wall_clock_ms),
        samples |-> CounterGet(cnt, frame_idx),
        category |-> categorize_method(method_path) ]

\* lines 204-235: the frames of top_frames that are in the frame table
RECURSIVE TopMethods(_, _, _, _, _)
TopMethods(top_frames, tbl, incl, cnt, wall_clock_ms) ==
  IF top_frames = <<>> THEN <<>>
  ELSE LET frame_idx == top_frames[1][1]
           rest == TopMethods(Tail(top_frames), tbl, incl, cnt, wall_clock_ms)
       IN  IF frame_idx < Len(tbl)
             THEN <<Hotspot(frame_idx, top_frames[1][2], tbl, incl, cnt, wall_clock_ms)>> \o rest
             ELSE rest

\* lines 244-250: the exclusive time of the in-table frames whose lower-cased
\* raw name contains one of the words
RECURSIVE NamedTime(_, _, _)
NamedTime(excl, tbl, words) ==
  IF excl = <<>> THEN 0
  ELSE LET frame_idx == excl[1][1]
           rest == NamedTime(Tail(excl), tbl, words)
       IN  IF frame_idx < Len(tbl)
             THEN LET frame_name == Lower(FrameName(tbl[frame_idx + 1], EmptyName)) IN
                  IF \E w \in words : In(w, frame_name)
                    THEN excl[1][2] + rest ELSE rest
             ELSE rest

\* "frame_idx < len(frames)" (lines 205, 245) raises TypeError for a None key
NoneKey(items) == \E i \in 1..Len(items) : items[i][1] = None

\* lines 255-265
Metrics(wall_clock_ms, total_cpu_time_ms, incl, excl, cnt, tbl, n) ==
  LET gc_samples == NamedTime(excl, tbl, {GcWord, GarbageWord})
      alloc_samples == NamedTime(excl, tbl, {AllocWord})
  IN  [ wall_clock_ms |-> wall_clock_ms,
        total_cpu_time_ms |-> total_cpu_time_ms,
        top_methods |-> TopMethods(MostCommon(excl, TopN), tbl, incl, cnt, wall_clock_ms),
        thread_count |-> n,
        gc_samples |-> gc_samples,
        gc_percentage |-> Pct(gc_samples, wall_clock_ms),
        alloc_samples |-> alloc_samples,
        alloc_percentage |-> Pct(alloc_samples, wall_clock_ms) ]

\* lines 171-265
Finish ==
  /\ pc = "profiles"
  /\ Len(recordings) = nprofiles
  /\ LET evented == profile_results # <<>>
         wall_clock_ms == IF evented THEN WallClock(profile_results) ELSE total_samples
         incl == IF evented THEN Aggregate(profile_results, "frame_inclusive") ELSE frame_samples
         excl == IF evented THEN Aggregate(profile_results, "frame_exclusive") ELSE frame_samples
         cnt == IF evented THEN Aggregate(profile_results, "frame_count") ELSE <<>>
         total_cpu_time_ms == IF evented THEN TotalCpu(excl) ELSE total_samples
     IN  /\ total_inclusive' = incl
         /\ total_exclusive' = excl
         /\ total_count' = cnt
         /\ IF NoneKey(MostCommon(excl, TopN))
              THEN /\ pc' = "TypeError at 205"
                   /\ result' = result
              ELSE IF NoneKey(excl)
              THEN /\ pc' = "TypeError at 245"
                   /\ result' = result
              ELSE /\ pc' = "done"
                   /\ result' = Metrics(wall_clock_ms, total_cpu_time_ms, incl, excl,
                                        cnt, frames, nprofiles)
  /\ UNCHANGED <<frames, nprofiles, recordings, weights_len, sample_i, nread, total_samples,
                 frame_samples, profile_results, decoder_vars, other_vars>>

-----------------------------------------------------------------------------
(* generate_markdown, lines 268-352: the error report, the verdict and the
   baseline comparison *)

\* "k in d" for a dict d
HasKey(d, k) == k \in DOMAIN d

\* the baselines: None (the empty dict here) or a dict with some of the keys
BaselineKeys == {"wall_clock_ms", "cpu_time_ms"}
NoBaseline == <<>>

\* variant: the 5 % threshold tested before the 15 % one
VerdictOf_MinorFirst(m, b) ==
  IF b # NoBaseline /\ HasKey(b, "wall_clock_ms") /\ b["wall_clock_ms"] > 0
    THEN LET wall_diff == m["wall_clock_ms"] - b["wall_clock_ms"]
             base == b["wall_clock_ms"]
         IN  IF wall_diff * 100 > 5 * base THEN "minor impact"
             ELSE IF wall_diff * 100 > 15 * base THEN "regression"
             ELSE IF wall_diff * 100 < (-5) * base THEN "improvement"
             ELSE "normal variance"
    ELSE "no significant impact"

\* lines 284-299; wall_pct > t is compared as wall_diff * 100 > t * baseline
VerdictOf(m, b) ==
  IF b # NoBaseline /\ HasKey(b, "wall_clock_ms") /\ b["wall_clock_ms"] > 0
    THEN LET wall_diff == m["wall_clock_ms"] - b["wall_clock_ms"]
             base == b["wall_clock_ms"]
         IN  IF wall_diff * 100 > 15 * base THEN "regression"
             ELSE IF wall_diff * 100 > 5 * base THEN "minor impact"
             ELSE IF wall_diff * 100 < (-5) * base THEN "improvement"
             ELSE "normal variance"
    ELSE "no significant impact"

\* lines 272-275, 280-301, 328-331
GenerateMarkdown ==
  /\ report = "pending"
  /\ IF HasKey(metrics, "error")
       THEN /\ report' = "error report"
            /\ verdict_text' = verdict_text
       ELSE /\ verdict_text' = VerdictOf(metrics, baseline)
            /\ report' =
                 IF baseline # NoBaseline /\ HasKey(baseline, "cpu_time_ms")
                      /\ baseline["cpu_time_ms"] > 0
                   THEN "KeyError"
                   ELSE "report"
  /\ UNCHANGED <<metrics, baseline, parse_vars, cat_vars, slug_vars>>

-----------------------------------------------------------------------------
(* categorize_method applied to one name *)

NamePieces ==
  { <<"M","y","A","p","p",".">>,
    <<"P","r","o","b","o","t","S","h","a","r","p">>,
    <<"P","R","O","B","O","T","S","H","A","R","P">>,
    <<".","H","a","n","d","l","e","r","s",".","F","o","o">>,
    <<"S","y","s","t","e","m",".">>,
    <<"T","h","r","e","a","d","i","n","g",".","M","o","n","i","t","o","r">>,
    <<".","W","a","i","t">>,
    <<"W","a","i","t","H","a","n","d","l","e">>,
    <<"C","o","l","l","e","c","t","i","o","n","s",".","L","i","s","t">>,
    <<"T","h","r","e","a","d","s">> }

\* the concatenations of 1..n pieces
RECURSIVE NamesOf(_)
NamesOf(n) ==
  IF n = 0 THEN {<<>>}
  ELSE LET shorter == NamesOf(n - 1) IN
       shorter \cup {s \o p : s \in shorter, p \in NamePieces}

MethodNames == NamesOf(MaxParts)

Categorize ==
  /\ category = "pending"
  /\ category' = categorize_method(method_name)
  /\ UNCHANGED <<method_name, parse_vars, md_vars, slug_vars>>

-----------------------------------------------------------------------------
(* verify-local-links.py: github_slugify (lines 37-75) and the loop of
   extract_headers (lines 78-122) *)

DigitChars == <<"0","1","2","3","4","5","6","7","8","9">>

\* str(n) for n >= 0
RECURSIVE Str(_)
Str(n) ==
  IF n < 10 THEN <<DigitChars[n + 1]>>
  ELSE Str(n \div 10) \o <<DigitChars[(n % 10) + 1]>>

\* the characters the pattern [\w\-] of line 62 keeps
Kept(c) ==
  \/ c = "-"
  \/ c = "_"
  \/ \E i \in 1..Len(Lowers) : Lowers[i] = c \/ Uppers[i] = c
  \/ \E i \in 1..Len(DigitChars) : DigitChars[i] = c

\* line 58: s.replace(' ', '-')
SpacesToHyphens(s) == [i \in 1..Len(s) |-> IF s[i] = " " THEN "-" ELSE s[i]]

\* line 62
RemoveSpecial(s) == SelectSeq(s, Kept)

\* line 65: s.strip('-')
RECURSIVE StripHyphens(_)
StripHyphens(s) ==
  IF s = <<>> THEN s
  ELSE IF s[1] = "-" THEN StripHyphens(Tail(s))
  ELSE IF s[Len(s)] = "-" THEN StripHyphens(SubSeq(s, 1, Len(s) - 1))
  ELSE s

\* lines 55-68: base_slug
BaseSlug(text) == StripHyphens(RemoveSpecial(SpacesToHyphens(Lower(text))))

\* lines 69-73: existing_slugs after the call
CountsAfter(text, existing_slugs) == CounterAdd(existing_slugs, BaseSlug(text), 1)

\* lines 69-75: the slug returned
github_slugify(text, existing_slugs) ==
  LET base_slug == BaseSlug(text) IN
  IF CounterHas(existing_slugs, base_slug)
    THEN base_slug \o <<"-">> \o Str(CounterGet(existing_slugs, base_slug))
    ELSE base_slug

\* headers[k] = v
DictSet(d, k, v) ==
  IF CounterHas(d, k)
    THEN [i \in 1..Len(d) |-> IF d[i][1] = k THEN <<k, v>> ELSE d[i]]
    ELSE Append(d, <<k, v>>)

\* the header texts of the documents, after the clean-up of lines 97-100
HeaderTexts ==
  { <<"f","o","o">>,
    <<"F","o","o","!">>,
    <<"f","o","o","-","1">>,
    <<"f","o","o"," ","1">>,
    <<"-","f","o","o","?","-">>,
    <<"b","a","r","_","2">> }

\* lines 91-103 and 106-118: one more header of the document
ExtractHeader ==
  /\ Len(header_texts) < MaxHeaders
  /\ \E header_text \in HeaderTexts :
       /\ header_texts' = Append(header_texts, header_text)
       /\ slug' = github_slugify(header_text, slug_counts)
       /\ slug_counts' = CountsAfter(header_text, slug_counts)
       /\ headers' = DictSet(headers, github_slugify(header_text, slug_counts),
                             Len(header_texts) + 1)
  /\ UNCHANGED <<parse_vars, cat_vars, md_vars>>

-----------------------------------------------------------------------------
(* Specifications *)

ParseIdle ==
  /\ pc = "idle" /\ frames = <<>> /\ nprofiles = 0 /\ recordings = <<>>
  /\ weights_len = 0 /\ sample_i = 0 /\ nread = 0 /\ total_samples = 0 /\ frame_samples = <<>>
  /\ profile_results = <<>> /\ event = NoEvent /\ stack = <<>> /\ frame_inclusive = <<>>
  /\ frame_exclusive = <<>> /\ frame_count = <<>> /\ total_inclusive = <<>>
  /\ total_exclusive = <<>> /\ total_count = <<>> /\ result = NoResult

CatIdle == method_name = <<>> /\ category = "idle"

SlugIdle ==
  header_texts = <<>> /\ slug_counts = <<>> /\ headers = <<>> /\ slug = <<>>

MdIdle ==
  /\ metrics = NoResult /\ baseline = NoBaseline
  /\ verdict_text = "idle" /\ report = "idle"

\* one run of parse_speedscope on a trace
Init ==
  /\ pc = "start"
  /\ frames \in FrameTables
  /\ nprofiles \in 0..MaxProfiles
  /\ recordings = <<>>
  /\ weights_len = 0
  /\ sample_i = 0
  /\ nread = 0
  /\ total_samples = 0
  /\ frame_samples = <<>>
  /\ profile_results = <<>>
  /\ event = NoEvent
  /\ stack = <<>>
  /\ frame_inclusive = <<>>
  /\ frame_exclusive = <<>>
  /\ frame_count = <<>>
  /\ total_inclusive = <<>>
  /\ total_exclusive = <<>>
  /\ total_count = <<>>
  /\ result = NoResult
  /\ CatIdle
  /\ MdIdle
  /\ SlugIdle

Next ==
  \/ Start
  \/ BeginSampled
  \/ SampleStep
  \/ EndSamples
  \/ BeginEvented
  \/ SkipProfile
  \/ OpenEvent
  \/ CloseEvent
  \/ OtherEvent
  \/ EndEvents
  \/ Finish

Spec == Init /\ [][Next]_vars

\* well-formed input: the event read carries a timestamp that is not below
\* the timestamp of the event before it in the same profile
WellFormedEvent ==
  /\ event'.at # None
  /\ event.type # "none" => event'.at >= event.at

\* parse_speedscope on the traces whose events are well-formed
NextWellFormed ==
  \/ Start
  \/ BeginSampled
  \/ SampleStep
  \/ EndSamples
  \/ BeginEvented
  \/ SkipProfile
  \/ OpenEvent /\ WellFormedEvent
  \/ CloseEvent /\ WellFormedEvent
  \/ OtherEvent /\ WellFormedEvent
  \/ EndEvents
  \/ Finish

SpecWellFormed == Init /\ [][NextWellFormed]_vars

\* the event read carries a timestamp that is not below the startValue of its
\* profile
EventAfterStart == event'.at >= recordings[Len(recordings)].startValue

\* the endValue of the profile is not below its startValue nor below the
\* timestamp of its last event
EndAfterEvents ==
  LET header == recordings'[Len(recordings)] IN
  /\ header.endValue >= header.startValue
  /\ header.endValue >= event.at

\* parse_speedscope on the traces whose events are well-formed and lie
\* within [startValue, endValue]
NextInBounds ==
  \/ Start
  \/ BeginSampled
  \/ SampleStep
  \/ EndSamples
  \/ BeginEvented
  \/ SkipProfile
  \/ OpenEvent /\ WellFormedEvent /\ EventAfterStart
  \/ CloseEvent /\ WellFormedEvent /\ EventAfterStart
  \/ OtherEvent /\ WellFormedEvent /\ EventAfterStart
  \/ EndEvents /\ EndAfterEvents
  \/ Finish

SpecInBounds == Init /\ [][NextInBounds]_vars

\* categorize_method on every method name
CatInit ==
  /\ method_name \in MethodNames
  /\ category = "pending"
  /\ ParseIdle
  /\ MdIdle
  /\ SlugIdle

CatNext == Categorize

SpecCat == CatInit /\ [][CatNext]_vars

\* a metrics record as parse_speedscope returns it, with the given wall clock
MetricsOfWall(w) ==
  [ wall_clock_ms |-> w, total_cpu_time_ms |-> w, top_methods |-> <<>>,
    thread_count |-> 1, gc_samples |-> 0, gc_percentage |-> 0,
    alloc_samples |-> 0, alloc_percentage |-> 0 ]

Baselines ==
  {NoBaseline}
    \cup {[k \in {"wall_clock_ms"} |-> w] : w \in 0..MaxWall}
    \cup {[k \in {"cpu_time_ms"} |-> c] : c \in {0, 1}}
    \cup {[k \in BaselineKeys |-> IF k = "wall_clock_ms" THEN w ELSE c] :
            w \in 0..MaxWall, c \in {0, 1}}

\* generate_markdown on a metrics record and a baseline
MdInit ==
  /\ metrics \in {EmptyResult} \cup {MetricsOfWall(w) : w \in 0..MaxWall}
  /\ baseline \in Baselines
  /\ verdict_text = "unset"
  /\ report = "pending"
  /\ ParseIdle
  /\ CatIdle
  /\ SlugIdle

MdNext == GenerateMarkdown

SpecMd == MdInit /\ [][MdNext]_vars

\* extract_headers on a document, lines 83-84 done
SlugInit ==
  /\ header_texts = <<>>
  /\ slug_counts = <<>>
  /\ headers = <<>>
  /\ slug = <<>>
  /\ ParseIdle /\ CatIdle /\ MdIdle

SlugNext == ExtractHeader

SpecSlug == SlugInit /\ [][SlugNext]_vars

\* a frame table of n frames
TableOf(n) ==
  [i \in 1..n |-> IF i % 3 = 1 THEN Named(Name1)
                  ELSE IF i % 3 = 2 THEN Named(Name2)
                  ELSE Named(Name3)]

\* the ledger of one sampled profile whose samples name the frames
\* 0 .. MaxLedger - 1 once each, in this order, with weights w
LedgerOf(w) == [i \in 1..MaxLedger |-> <<i - 1, w[i]>>]

\* parse_speedscope at line 171, one sampled profile of MaxLedger samples
\* decoded, the frame table two frames short of them, one short, or complete
TopInit ==
  /\ pc = "profiles"
  /\ frames \in {TableOf(n) : n \in (MaxLedger - 2)..MaxLedger}
  /\ nprofiles = 1
  /\ \E w \in [1..MaxLedger -> 1..MaxWeight] :
       /\ frame_samples = LedgerOf(w)
       /\ total_samples = CounterSum(LedgerOf(w))
       /\ recordings = <<[type |-> "sampled", weight |-> CounterSum(LedgerOf(w))]>>
  /\ weights_len = 0
  /\ sample_i = 0
  /\ nread = MaxLedger
  /\ profile_results = <<>>
  /\ event = NoEvent
  /\ stack = <<>>
  /\ frame_inclusive = <<>>
  /\ frame_exclusive = <<>>
  /\ frame_count = <<>>
  /\ total_inclusive = <<>>
  /\ total_exclusive = <<>>
  /\ total_count = <<>>
  /\ result = NoResult
  /\ CatIdle
  /\ MdIdle
  /\ SlugIdle

TopNext == Finish

SpecTop == TopInit /\ [][TopNext]_vars

-----------------------------------------------------------------------------
(* Properties of parse_speedscope (checked under Spec) *)

\* parse_speedscope returned a metrics record that is not the empty-trace one
Returned == pc = "done" /\ ~HasKey(result, "error")

EventedIdx == {i \in 1..Len(recordings) : recordings[i].type = "evented"}
DeclaredDuration(i) == recordings[i].endValue - recordings[i].startValue

RECURSIVE SumExclusive(_)
SumExclusive(results) ==
  IF results = <<>> THEN 0
  ELSE CounterSum(results[1].frame_exclusive) + SumExclusive(Tail(results))

\* C2: total_cpu_time_ms is the sum of the exclusive time over all frames over
\* all threads: the exclusive ledgers of the evented recordings plus the
\* weights of the sampled recordings (whose exclusive time is their weight).
C2_TotalCpuIsSumOverAllThreads ==
  Returned =>
    result.total_cpu_time_ms = SumExclusive(profile_results) + total_samples

RECURSIVE SumLedger(_, _, _)
SumLedger(results, field, f) ==
  IF results = <<>> THEN 0
  ELSE CounterGet(results[1][field], f) + SumLedger(Tail(results), field, f)

\* C3: for every frame index f, the aggregated inclusive time, exclusive time
\* and occurrence count of f are the sums over ALL recordings of the
\* per-thread ledgers: the ledgers of the evented recordings plus, for the
\* times, the weights the sampled recordings gave f.
C3_AggregateIsSumOverAllRecordings ==
  Returned =>
    \A f \in EventFrames :
      /\ CounterGet(total_inclusive, f)
           = SumLedger(profile_results, "frame_inclusive", f) + CounterGet(frame_samples, f)
      /\ CounterGet(total_exclusive, f)
           = SumLedger(profile_results, "frame_exclusive", f) + CounterGet(frame_samples, f)
      /\ CounterGet(total_count, f) = SumLedger(profile_results, "frame_count", f)

\* C4: with no frames or no recordings parse_speedscope raises nothing and
\* returns, before decoding any recording, the empty-trace result: an error
\* marker, wall clock 0, CPU time 0, thread count 0, no hotspots, and every
\* numeric field 0.
C4_EmptyTraceShortCircuits ==
  (frames = <<>> \/ nprofiles = 0) =>
    /\ pc \in {"start", "done"}
    /\ recordings = <<>>
    /\ pc = "done" =>
         /\ HasKey(result, "error")
         /\ result.wall_clock_ms = 0
         /\ result.total_cpu_time_ms = 0
         /\ result.thread_count = 0
         /\ result.top_methods = <<>>
         /\ \A k \in DOMAIN result \ {"error", "top_methods"} : result[k] = 0

\* the empty-trace result returned for a trace with recordings but no frames
C4_Witness ==
  /\ pc = "done"
  /\ frames = <<>>
  /\ nprofiles > 0
  /\ HasKey(result, "error")

\* C5: the evented decoder never raises, whatever the events (a Close on an
\* empty stack, a Close not matching the top, dangling Opens, events with a
\* missing frame or timestamp).
C5_EventedDecoderNeverRaises == pc # "TypeError at 147"

\* the percentage p (in hundredths) is time / wall * 100 rounded to two places
IsPctOf(p, time, wall) ==
  LET d == p * wall - time * 10000
      a == IF d < 0 THEN -d ELSE d
      w == IF wall < 0 THEN -wall ELSE wall
  IN  2 * a <= w

\* the <<percentage, time>> pairs of a metrics record
PctPairs(r) ==
  {<<r.gc_percentage, r.gc_samples>>, <<r.alloc_percentage, r.alloc_samples>>}
    \cup {<<r.top_methods[i].inclusive_pct, r.top_methods[i].inclusive_ms>> :
            i \in 1..Len(r.top_methods)}
    \cup {<<r.top_methods[i].exclusive_pct, r.top_methods[i].exclusive_ms>> :
            i \in 1..Len(r.top_methods)}

\* C6 as stated: every percentage is its time divided by the wall clock times
\* 100, and is 0 when the wall clock is 0.
C6_PctIsTimeOverWallClock ==
  Returned =>
    \A q \in PctPairs(result) :
      IF result.wall_clock_ms = 0 THEN q[1] = 0
      ELSE IsPctOf(q[1], q[2], result.wall_clock_ms)

\* C6 as amended: every percentage is its time divided by the wall clock times
\* 100 when the wall clock is positive (never divided by the CPU time), and is
\* 0 when the wall clock is zero or negative.
C6_PctIsTimeOverPositiveWallClock ==
  Returned =>
    \A q \in PctPairs(result) :
      IF result.wall_clock_ms > 0 THEN IsPctOf(q[1], q[2], result.wall_clock_ms)
      ELSE q[1] = 0

\* two parallel threads: a hotspot above 100 % of the wall clock, with a CPU
\* time larger than the wall clock
C6_Witness ==
  /\ Returned
  /\ result.wall_clock_ms > 0
  /\ result.total_cpu_time_ms > result.wall_clock_ms
  /\ \E i \in 1..Len(result.top_methods) : result.top_methods[i].exclusive_pct > 10000

\* top_frames of line 201
TopFrames == MostCommon(total_exclusive, TopN)

\* C7: the hotspots (the frames of top_frames that are in the frame table)
\* are in descending order of exclusive time, and of two of them with the
\* same exclusive time the one with the lower frame index is first.
C7_TiesByLowerFrameIndex ==
  Returned =>
    \A i, j \in 1..Len(TopFrames) :
      (i < j /\ TopFrames[i][1] < Len(frames) /\ TopFrames[j][1] < Len(frames)) =>
        \/ TopFrames[i][2] > TopFrames[j][2]
        \/ TopFrames[i][2] = TopFrames[j][2] /\ TopFrames[i][1] < TopFrames[j][1]

-----------------------------------------------------------------------------
(* Properties of categorize_method (checked under SpecCat) *)

\* characters a and b are the same up to case
SameLetter(a, b) ==
  a = b \/ \E i \in 1..Len(Uppers) : {a, b} = {Uppers[i], Lowers[i]}

\* p occurs in s, case-insensitively
Occurs(p, s) ==
  \E i \in 0..(Len(s) - Len(p)) : \A j \in 1..Len(p) : SameLetter(s[i + j], p[j])

IsNoise(s) == \E k \in 1..Len(noise_patterns) : Occurs(noise_patterns[k], s)

\* C8: categorize_method returns one of noise, app, framework: noise for a
\* name containing a noise pattern (also when it contains 'probotsharp'), else
\* app for a name containing 'probotsharp', else framework.
C8_CategoryByPriority ==
  category # "pending" =>
    /\ category \in {"noise", "app", "framework"}
    /\ category = "noise" <=> IsNoise(method_name)
    /\ category = "app" <=> (~IsNoise(method_name) /\ Occurs(ProductMarker, method_name))

\* a name with both a noise pattern and the product marker is noise
C8_Witness ==
  /\ category = "noise"
  /\ Occurs(ProductMarker, method_name)
  /\ IsNoise(method_name)

-----------------------------------------------------------------------------
(* Properties of generate_markdown (checked under SpecMd) *)

\* generate_markdown got past line 301 with a baseline whose wall clock is > 0
VerdictGiven ==
  /\ report \in {"report", "KeyError"}
  /\ baseline # NoBaseline
  /\ HasKey(baseline, "wall_clock_ms")
  /\ baseline["wall_clock_ms"] > 0

\* C9: with a baseline wall clock b > 0 and a current wall clock m, writing
\* delta = (m - b) / b * 100: delta > 15 gives regression, 5 < delta <= 15
\* minor impact, delta < -5 improvement and -5 <= delta <= 5 normal variance;
\* the verdict is one of the four.
C9_VerdictByDelta ==
  VerdictGiven =>
    LET m == metrics.wall_clock_ms
        b == baseline["wall_clock_ms"]
    IN  /\ verdict_text \in {"regression", "minor impact", "improvement", "normal variance"}
        /\ verdict_text = "regression" <=> 100 * m > 115 * b
        /\ verdict_text = "minor impact" <=> (100 * m > 105 * b /\ 100 * m <= 115 * b)
        /\ verdict_text = "improvement" <=> 100 * m < 95 * b
        /\ verdict_text = "normal variance" <=> (100 * m >= 95 * b /\ 100 * m <= 105 * b)

\* a delta of exactly 15 % is a minor impact
C9_Witness ==
  /\ VerdictGiven
  /\ 100 * metrics.wall_clock_ms = 115 * baseline["wall_clock_ms"]
  /\ verdict_text = "minor impact"

-----------------------------------------------------------------------------
(* The sampled decoder *)

SampledIdx == {i \in 1..Len(recordings) : recordings[i].type = "sampled"}

\* the frames credited by some evented recording
EventedKeys ==
  UNION {{profile_results[i].frame_inclusive[j][1] :
            j \in 1..Len(profile_results[i].frame_inclusive)} :
         i \in 1..Len(profile_results)}

\* C11: every frame that only sampled recordings name ends with an inclusive
\* time and an exclusive time both equal to the weight accumulated for it,
\* each sample having added weights[i], or 1 past the end of the weights.
C11_SampledFrameTimesAreAccumulatedWeight ==
  Returned =>
    \A j \in 1..Len(frame_samples) :
      LET frame_idx == frame_samples[j][1]
          accumulated == frame_samples[j][2]
      IN  frame_idx \notin EventedKeys =>
            /\ CounterGet(total_inclusive, frame_idx) = accumulated
            /\ CounterGet(total_exclusive, frame_idx) = accumulated

RECURSIVE SumOfWeights(_)
SumOfWeights(recs) ==
  IF recs = <<>> THEN 0 ELSE recs[1].weight + SumOfWeights(Tail(recs))

\* C12: in a trace of two or more sampled recordings, the duration of a thread
\* being the sum of its weights, the wall clock is the largest thread duration
\* and the total CPU time is the sum of the thread durations.
C12_SampledWallClockIsMaxThreadDuration ==
  (Returned /\ Len(recordings) >= 2 /\ SampledIdx = 1..Len(recordings)) =>
    /\ result.wall_clock_ms =
         MaxOf([i \in 1..Len(recordings) |-> recordings[i].weight])
    /\ result.total_cpu_time_ms = SumOfWeights(recordings)

-----------------------------------------------------------------------------
(* The evented decoder *)

\* the step decodes one more event of the profile at hand, and it is a Close
ReadsClose == pc = "events" /\ nread' = nread + 1 /\ event'.type = "C"

Top(stk) == stk[Len(stk)]

\* what a step adds to the ledger entry of frame k
Added(ledger_after, ledger_before, k) ==
  CounterGet(ledger_after, k) - CounterGet(ledger_before, k)

\* C13: a Close(frame, t) naming the frame on top of the stack pops that
\* entry, adds t - open_timestamp to the frame's inclusive total, adds that
\* minus the entry's children time to its exclusive total, adds 1 to its
\* count, and adds the inclusive time to the children time of the new top
\* entry and to no other entry.
C13_MatchingCloseCreditsAndPropagates ==
  [][(/\ ReadsClose
      /\ stack # <<>>
      /\ Top(stack)[1] = event'.frame
      /\ event'.at # None
      /\ Top(stack)[2] # None) =>
       LET inclusive == event'.at - Top(stack)[2]
           exclusive == inclusive - Top(stack)[3]
           n == Len(stack) - 1
       IN  /\ pc' = "events"
           /\ Len(stack') = n
           /\ \A k \in EventFrames :
                LET hit == IF k = event'.frame THEN 1 ELSE 0 IN
                /\ Added(frame_inclusive', frame_inclusive, k) = hit * inclusive
                /\ Added(frame_exclusive', frame_exclusive, k) = hit * exclusive
                /\ Added(frame_count', frame_count, k) = hit
           /\ \A j \in 1..n :
                stack'[j] = IF j = n
                              THEN <<stack[j][1], stack[j][2], stack[j][3] + inclusive>>
                              ELSE stack[j]
     ]_vars

\* a Close has just been matched two levels deep and its positive inclusive
\* time is the children time of the new top entry
C13_Witness ==
  /\ pc = "events"
  /\ event.type = "C"
  /\ nread = 4
  /\ Len(stack) = 2
  /\ Top(stack)[3] = 1
  /\ stack[1][3] = 0
  /\ CounterGet(frame_count, event.frame) = 1

\* C14: a Close naming a frame other than the one on top of the stack, or read
\* with the stack empty, changes neither the stack nor any inclusive total,
\* exclusive total or count, and raises nothing.
C14_UnmatchedCloseIsDiscarded ==
  [][(ReadsClose /\ (stack = <<>> \/ Top(stack)[1] # event'.frame)) =>
       /\ pc' = "events"
       /\ UNCHANGED <<stack, frame_inclusive, frame_exclusive, frame_count,
                      profile_results, total_samples, frame_samples>>
     ]_vars

\* the two events read are an Open and a Close of another frame, and the
\* Open is still on the stack
C14_Witness ==
  /\ pc = "events"
  /\ event.type = "C"
  /\ nread = 2
  /\ Len(stack) = 1
  /\ Top(stack)[1] # event.frame
  /\ frame_count = <<>>

\* C15: on well-formed input every completed pair adds an exclusive time
\* between 0 and the inclusive time it adds, and the children time of the
\* closed entry is not above its inclusive time.
C15_ExclusiveWithinInclusive ==
  [][(ReadsClose /\ Len(stack') < Len(stack)) =>
       LET inclusive == Added(frame_inclusive', frame_inclusive, event'.frame)
           exclusive == Added(frame_exclusive', frame_exclusive, event'.frame)
       IN  /\ 0 <= exclusive
           /\ exclusive <= inclusive
           /\ Top(stack)[3] <= inclusive
     ]_vars

\* a parent has just been closed whose child took its whole interval
C15_Witness ==
  /\ pc = "events"
  /\ event.type = "C"
  /\ stack = <<>>
  /\ Len(frame_count) = 2
  /\ CounterGet(frame_inclusive, event.frame) = 1
  /\ CounterGet(frame_exclusive, event.frame) = 0

\* C16: whatever the timestamps, no step of the decoder lowers the exclusive
\* total of a frame: an exclusive time below zero is clamped to zero.
C16_NoNegativeExclusiveAdded ==
  [][(pc = "events" /\ pc' = "events") =>
       \A k \in EventFrames : Added(frame_exclusive', frame_exclusive, k) >= 0
     ]_vars

-----------------------------------------------------------------------------
(* Names of the hotspots, GC and allocation shares *)

\* the entries of top_frames that name a frame of the frame table: one
\* hotspot each, in this order
ListedFrames == SelectSeq(TopFrames, LAMBDA e : e[1] < Len(frames))

\* the text after the first '!' of a name, the name itself without a '!'
AfterFirstBang(name) ==
  LET k == Find(name, Bang, 1) IN
  IF k = 0 THEN name ELSE SubSeq(name, k + 1, Len(name))

\* C17: the method of a hotspot is the text after the first '!' of the raw
\* frame name, later '!' included, and the raw name when it has no '!'.
C17_MethodIsTextAfterFirstBang ==
  Returned =>
    /\ Len(result.top_methods) = Len(ListedFrames)
    /\ \A i \in 1..Len(ListedFrames) :
         result.top_methods[i].method =
           AfterFirstBang(FrameName(frames[ListedFrames[i][1] + 1], UnknownName))

\* the aggregated exclusive time of the in-table frames whose display name,
\* lower-cased, contains one of the words
RECURSIVE DisplayNamedTime(_, _)
DisplayNamedTime(excl, words) ==
  IF excl = <<>> THEN 0
  ELSE LET rest == DisplayNamedTime(Tail(excl), words)
           k == excl[1][1]
       IN  IF k >= 0 /\ k < Len(frames)
                /\ \E w \in words :
                     In(w, Lower(AfterFirstBang(FrameName(frames[k + 1], EmptyName))))
             THEN excl[1][2] + rest
             ELSE rest

\* C18: GC time is the exclusive time of the frames whose display name (the
\* name after the module prefix, whatever the case) contains "gc" or
\* "garbage", allocation time that of the frames whose display name contains
\* "alloc"; a module prefix does not count; each share is the time over the
\* wall clock.
C18_GcAndAllocByDisplayName ==
  Returned =>
    /\ result.gc_samples = DisplayNamedTime(total_exclusive, {GcWord, GarbageWord})
    /\ result.alloc_samples = DisplayNamedTime(total_exclusive, {AllocWord})
    /\ result.wall_clock_ms > 0 =>
         /\ IsPctOf(result.gc_percentage, result.gc_samples, result.wall_clock_ms)
         /\ IsPctOf(result.alloc_percentage, result.alloc_samples, result.wall_clock_ms)

-----------------------------------------------------------------------------
(* Unclosed entries of the stack *)

\* the step decodes one more event of the profile at hand and raises nothing
ReadsEvent == pc = "events" /\ nread' = nread + 1 /\ pc' = "events"

\* the step leaves the stack and the three ledgers as they are
Discards == UNCHANGED <<stack, frame_inclusive, frame_exclusive, frame_count>>

\* the event read is a Close naming the frame of an entry below entry k, and
\* not the frame of entry k itself
ClosesBelow(k) ==
  /\ event'.type = "C"
  /\ stack[k][1] # event'.frame
  /\ \E j \in 1..(k - 1) : stack[j][1] = event'.frame

\* C19 as stated: while entry k of the stack is not closed, the entries below
\* it do not change and every Close naming the frame of one of them is
\* discarded.
C19_ClosesOfEnclosingFramesAreDiscarded ==
  [][ReadsEvent =>
       \A k \in 2..Len(stack) :
         k <= Len(stack') =>
           /\ \A j \in 1..(k - 1) : stack'[j] = stack[j]
           /\ ClosesBelow(k) => Discards
     ]_vars

\* C19 as amended: while entry k of the stack is not closed, the entries below
\* it do not change; a Close naming the frame of one of them is discarded
\* unless the frame on top of the stack is that same frame, opened again above
\* entry k; and whatever is credited is credited for the entry popped from the
\* top, above entry k.
C19_EnclosingActivationsAreFrozen ==
  [][ReadsEvent =>
       \A k \in 2..Len(stack) :
         k <= Len(stack') =>
           /\ \A j \in 1..(k - 1) : stack'[j] = stack[j]
           /\ (ClosesBelow(k) /\ Top(stack)[1] # event'.frame) => Discards
           /\ ~Discards =>
                \/ event'.type = "O" /\ Len(stack') = Len(stack) + 1
                \/ /\ event'.type = "C"
                   /\ Top(stack)[1] = event'.frame
                   /\ Len(stack') = Len(stack) - 1
                   /\ Len(stack') >= k
                   /\ \A f \in EventFrames :
                        f # event'.frame =>
                          /\ Added(frame_inclusive', frame_inclusive, f) = 0
                          /\ Added(frame_exclusive', frame_exclusive, f) = 0
                          /\ Added(frame_count', frame_count, f) = 0
     ]_vars

\* the Close of the enclosing frame has just been discarded: the unclosed
\* entry and the enclosing one are both still on the stack
C19_Witness ==
  /\ pc = "events"
  /\ event.type = "C"
  /\ nread = 3
  /\ Len(stack) = 2
  /\ stack[1][1] = event.frame
  /\ stack[2][1] # event.frame
  /\ frame_count = <<>>

-----------------------------------------------------------------------------
(* Traces that mix encodings *)

\* the sampled recordings add nothing to the ledgers, the CPU time and the
\* wall clock of a trace with an evented recording
EventedOnly ==
  profile_results # <<>> =>
    /\ \A f \in EventFrames :
         /\ CounterGet(total_inclusive, f) = SumLedger(profile_results, "frame_inclusive", f)
         /\ CounterGet(total_exclusive, f) = SumLedger(profile_results, "frame_exclusive", f)
         /\ CounterGet(total_count, f) = SumLedger(profile_results, "frame_count", f)
    /\ result.total_cpu_time_ms = SumExclusive(profile_results)
    /\ \E i \in EventedIdx : result.wall_clock_ms = DeclaredDuration(i)
    /\ \A i \in EventedIdx : result.wall_clock_ms >= DeclaredDuration(i)

\* C20 as stated: with an evented recording in the trace the sampled
\* recordings add nothing to the totals, and thread_count is always the
\* number of recordings of the trace.
C20_ThreadCountIsAlwaysNumberOfRecordings ==
  pc = "done" =>
    /\ result.thread_count = nprofiles
    /\ Returned => EventedOnly

\* C20 as amended: the same for every trace that is analysed (frame table and
\* recording list not empty); thread_count counts the recordings of every
\* type, skipped ones included.
C20_ThreadCountOfAnalysedTrace ==
  Returned =>
    /\ result.thread_count = nprofiles
    /\ result.thread_count = Len(recordings)
    /\ EventedOnly

\* a sampled recording that read weight next to an evented recording
C20_Witness ==
  /\ Returned
  /\ profile_results # <<>>
  /\ \E i \in SampledIdx : recordings[i].weight > 0
  /\ result.thread_count = 2

-----------------------------------------------------------------------------
(* Conservation of time in one evented recording (checked under SpecInBounds) *)

\* the step ends the decoding of a recording whose events were balanced:
\* nothing is left on the stack
EndsBalanced == pc = "events" /\ pc' = "profiles" /\ stack = <<>>

\* C21: at the end of a recording of balanced, nested events with
\* non-decreasing timestamps inside [startValue, endValue], the exclusive time
\* summed over all frames is the inclusive time summed over the outermost
\* pairs, and is not above endValue - startValue.
C21_ExclusiveSumIsOutermostInclusive ==
  [][EndsBalanced =>
       LET header == recordings'[Len(recordings)]
           stored == profile_results'[Len(profile_results')]
       IN  /\ CounterSum(stored.frame_exclusive) = header.outer
           /\ CounterSum(stored.frame_exclusive) <= header.endValue - header.startValue
           /\ stored.duration_ms = header.endValue - header.startValue
     ]_vars

\* a recording of one pair nested in another has been stored: two units of
\* inclusive time, one unit of exclusive time, one outermost unit
C21_Witness ==
  /\ pc = "profiles"
  /\ profile_results # <<>>
  /\ LET stored == profile_results[Len(profile_results)]
         header == recordings[Len(recordings)]
     IN  /\ header.type = "evented"
         /\ CounterSum(stored.frame_inclusive) = 2
         /\ CounterSum(stored.frame_exclusive) = 1
         /\ header.outer = 1
         /\ stored.duration_ms = 1

-----------------------------------------------------------------------------
(* The hotspot selection (checked under SpecTop) *)

\* the entries of the ledger that come before entry p in descending order of
\* exclusive time, entries of equal time keeping the order of the ledger
Before(p) ==
  {q \in 1..Len(total_exclusive) :
     \/ total_exclusive[q][2] > total_exclusive[p][2]
     \/ total_exclusive[q][2] = total_exclusive[p][2] /\ q < p}

\* entry p is one of the TopN highest of the ledger
AmongTop(p) == Cardinality(Before(p)) < TopN

\* entry p names a frame of the frame table
InTable(p) == total_exclusive[p][1] < Len(frames)

\* the entries the hotspot list is made of
Selected == {p \in 1..Len(total_exclusive) : AmongTop(p) /\ InTable(p)}

\* the exclusive time of the in-table entries from position p on whose
\* lower-cased frame name contains one of the words
RECURSIVE TimeOfInTable(_, _)
TimeOfInTable(p, words) ==
  IF p > Len(total_exclusive) THEN 0
  ELSE (IF InTable(p) /\ \E w \in words :
             In(w, Lower(frames[total_exclusive[p][1] + 1].name))
          THEN total_exclusive[p][2] ELSE 0)
       + TimeOfInTable(p + 1, words)

\* C22: an entry whose frame is outside the frame table is part of the CPU
\* time, and of neither the hotspot list nor the GC and allocation sums; the
\* hotspot list is made of the in-table entries among the TopN highest of the
\* ledger, with no replacement for the others: at most TopN entries, in
\* non-increasing order of exclusive time.
C22_HotspotsAreInTableSubsetOfTop ==
  Returned =>
    /\ result.total_cpu_time_ms = CounterSum(total_exclusive)
    /\ result.gc_samples = TimeOfInTable(1, {GcWord, GarbageWord})
    /\ result.alloc_samples = TimeOfInTable(1, {AllocWord})
    /\ Len(result.top_methods) = Cardinality(Selected)
    /\ Len(result.top_methods) <= TopN
    /\ \A p \in Selected :
         LET i == 1 + Cardinality(Before(p) \cap Selected) IN
         /\ result.top_methods[i].exclusive_ms = total_exclusive[p][2]
         /\ result.top_methods[i].method =
              MethodPath(frames[total_exclusive[p][1] + 1].name)
    /\ \A i, j \in 1..Len(result.top_methods) :
         i < j => result.top_methods[i].exclusive_ms >= result.top_methods[j].exclusive_ms

\* more than TopN in-table frames have an entry, an out-of-table entry is
\* among the TopN highest, and the hotspot list is shorter than TopN
C22_Witness ==
  /\ Returned
  /\ Cardinality({p \in 1..Len(total_exclusive) : InTable(p)}) > TopN
  /\ \E p \in 1..Len(total_exclusive) : AmongTop(p) /\ ~InTable(p)
  /\ \E p \in 1..Len(total_exclusive) : ~AmongTop(p) /\ InTable(p)
  /\ Len(result.top_methods) < TopN
  /\ result.total_cpu_time_ms > TimeOfInTable(1, {<<>>})

-----------------------------------------------------------------------------
(* Faults of generate_markdown (checked under SpecMd) *)

\* C23: on a metrics record without an error marker generate_markdown raises
\* nothing, whatever the baseline: its outcome is a complete report, with the
\* default verdict when there is no baseline.
C23_GenerateMarkdownNeverFaults ==
  (~HasKey(metrics, "error") /\ report # "pending") =>
    /\ report = "report"
    /\ baseline = NoBaseline => verdict_text = "no significant impact"

-----------------------------------------------------------------------------
(* Anchors of one document (checked under SpecSlug) *)

\* how many of the first n headers have the base slug b
RECURSIVE Occurrences(_, _)
Occurrences(n, b) ==
  IF n = 0 THEN 0
  ELSE Occurrences(n - 1, b) + (IF BaseSlug(header_texts[n]) = b THEN 1 ELSE 0)

\* C24: the first header with a base slug gets the base slug, its k-th
\* occurrence gets base-(k-1), and no header gets a slug an earlier header got:
\* the header map has one anchor for each header read.
C24_SlugsArePairwiseDistinct ==
  /\ header_texts # <<>> =>
       LET base_slug == BaseSlug(header_texts[Len(header_texts)])
           k == Occurrences(Len(header_texts), base_slug)
       IN  slug = IF k = 1 THEN base_slug ELSE base_slug \o <<"-">> \o Str(k - 1)
  /\ Len(headers) = Len(header_texts)

====
